---- MODULE Spec2Model ----
(***************************************************************************)
(* Model of lab.Conversion (src/lab/conversion.py).                        *)
(*                                                                         *)
(* One Conversion instance and the calls a client can make on it: fit,     *)
(* create_model, save and load.  The class has no __init__, so a fresh     *)
(* instance carries no attribute.  Every call is one atomic step (the      *)
(* code is synchronous and single threaded); the step records what the     *)
(* caller can observe of it: the exception that reached the caller, the    *)
(* returned value, the argument lists create_model was entered with and    *)
(* the number of times pm.sample was invoked.                              *)
(*                                                                         *)
(* Python rules the model relies on:                                       *)
(*  - calling a method with fewer or more positional arguments than its    *)
(*    signature raises TypeError before the body runs;                     *)
(*  - a def whose body falls off its end returns None.  The `return model` *)
(*    of line 119 is indented at class level, so it is not a statement of  *)
(*    create_model, whose body is lines 100-117;                           *)
(*  - an exception that is not caught aborts the call; assignments made    *)
(*    before it stay.                                                      *)
(***************************************************************************)
EXTENDS Integers, Sequences, FiniteSets, TLC

VARIABLES self, op, recv, arg, data, raised, ret, calls, nsample

vars == <<self, op, recv, arg, data, raised, ret, calls, nsample>>

(* ---------------------------- bounds ----------------------------------- *)

\* Largest number of variants in a dataset handed to fit / create_model.
MaxVariants == 2

\* The (trials, successes) pairs datasets are made of: the first pair of the
\* class docstring, one with successes > trials and both counts non-negative,
\* and one with negative counts and successes <= trials.
Observations == {<<100, 10>>, <<10, 20>>, <<-1, -1>>}

Datasets == UNION {[1..n -> Observations] : n \in 0..MaxVariants}

\* What the external sampler may do when it is invoked.
SamplerOutcomes == {"draws", "fails"}

\* Number of values the sampler returns per scalar latent quantity.
Draws == 2

(* ------------------------- Python values ------------------------------- *)

\* An attribute (or result) that does not exist is <<>>, one holding v is <<v>>.
Absent == <<>>

None == [type |-> "NoneType"]

NoExc == "none"

\* A Conversion instance right after Conversion(): no attribute is set.
NewInstance ==
    [model |-> Absent, nb_variants |-> Absent, named_vars |-> Absent, trace |-> Absent]

(* --------------------------- create_model ------------------------------ *)

Digit(d) == <<"0", "1", "2", "3", "4", "5", "6", "7", "8", "9">>[d + 1]

\* str(i) for i >= 0, as the sequence of its decimal digits.
RECURSIVE Decimal(_)
Decimal(i) == IF i < 10 THEN <<Digit(i)>> ELSE Decimal(i \div 10) \o <<Digit(i % 10)>>

\* 'observed_values_{}'.format(i)
observed_name(i) == <<"observed_values_">> \o Decimal(i)

\* phi = pm.Uniform('phi', 0, 1, testval=0.5)
phi == [name |-> "phi", dist |-> "Uniform", args |-> <<"0", "1">>,
        testval |-> "0.5", shape |-> <<>>]

\* lmbda = pm.Pareto('lambda', 1.5, 0.1, testval=1)
lmbda == [name |-> "lambda", dist |-> "Pareto", args |-> <<"1.5", "0.1">>,
          testval |-> "1", shape |-> <<>>]

\* true_rates = pm.Beta('p', phi*lmbda, lmbda*(1-phi), shape=self.nb_variants)
true_rates(nb_variants) ==
    [name |-> "p", dist |-> "Beta", args |-> <<"phi*lambda", "lambda*(1-phi)">>,
     testval |-> "default", shape |-> <<nb_variants>>]

\* true_rates[i]: component i (counted from 0) of the vector of true rates.
true_rates_at(i) == [var |-> "p", index |-> i]

\* observed_values with the two elements of each variant exchanged.
observed_values_swapped(X) ==
    [k \in 1..Len(X) |->
        [name     |-> observed_name(k - 1),
         dist     |-> "Binomial",
         n        |-> X[k][2],
         p        |-> true_rates_at(k - 1),
         observed |-> X[k][1]]]

\* The loop of lines 110-114: enumerate(X) counts from 0, X[k] of the model is
\* the variant enumerate pairs with i = k - 1.
observed_values(X) ==
    [k \in 1..Len(X) |->
        [name     |-> observed_name(k - 1),
         dist     |-> "Binomial",
         n        |-> X[k][1],
         p        |-> true_rates_at(k - 1),
         observed |-> X[k][2]]]

\* The pm.Model() the with-block of lines 102-114 fills.
Model(X, nb_variants) ==
    [type     |-> "Model",
     free     |-> <<phi, lmbda, true_rates(nb_variants)>>,
     observed |-> observed_values(X)]

\* create_model that also resets the stored trace when it rebuilds the graph.
create_model_resets_trace(slf, args) ==
    IF Len(args) # 1
    THEN [self |-> slf, raised |-> "TypeError", ret |-> None, X |-> Absent]
    ELSE LET X     == args[1]
             s100  == [slf EXCEPT !.nb_variants = <<Len(X)>>, !.trace = <<None>>]
             model == Model(X, s100.nb_variants[1])
             s116  == [s100 EXCEPT !.named_vars = <<[theta |-> true_rates(s100.nb_variants[1])]>>]
             s117  == [s116 EXCEPT !.model = <<model>>]
         IN  [self |-> s117, raised |-> NoExc, ret |-> None, X |-> <<X>>]

\* create_model entered with the positional arguments args (self excluded).
\* Result: the instance afterwards, the exception raised (NoExc if none), the
\* returned value and the caller's dataset object afterwards.
create_model(slf, args) ==
    IF Len(args) # 1
    THEN [self |-> slf, raised |-> "TypeError", ret |-> None, X |-> Absent]
    ELSE LET X     == args[1]
             s100  == [slf EXCEPT !.nb_variants = <<Len(X)>>]
             model == Model(X, s100.nb_variants[1])
             s116  == [s100 EXCEPT !.named_vars = <<[theta |-> true_rates(s100.nb_variants[1])]>>]
             s117  == [s116 EXCEPT !.model = <<model>>]
         IN  [self |-> s117, raised |-> NoExc, ret |-> None, X |-> <<X>>]

(* ------------------------------- fit ----------------------------------- *)

\* Number of scalar components of a latent variable.
Size(v) == IF v.shape = <<>> THEN 1 ELSE v.shape[1]

\* pm.sample() inside `with model`: for every latent variable of the graph,
\* under its name, one sequence of draws per component.
pm_sample(model) ==
    LET names == {model.free[j].name : j \in 1..Len(model.free)}
        var(nm) == CHOOSE v \in {model.free[j] : j \in 1..Len(model.free)} : v.name = nm
    IN  [nm \in names |-> [c \in 1..Size(var(nm)) |-> [d \in 1..Draws |-> "draw"]]]

\* fit that clears the stored trace before it builds the graph.
fit_clears_trace_first(slf, dataset, sampler) ==
    LET s89   == [slf EXCEPT !.trace = <<None>>]
        built == create_model(s89, <<>>)
    IN  IF built.raised # NoExc
        THEN [self |-> built.self, raised |-> built.raised,
              calls |-> << <<>> >>, nsample |-> 0]
        ELSE LET s90 == [built.self EXCEPT !.model = <<built.ret>>]
             IN  IF built.ret.type # "Model"
                 THEN [self |-> s90, raised |-> "AttributeError",
                       calls |-> << <<>> >>, nsample |-> 0]
                 ELSE IF sampler = "fails"
                 THEN [self |-> s90, raised |-> "SamplingFailure",
                       calls |-> << <<>> >>, nsample |-> 1]
                 ELSE [self |-> [s90 EXCEPT !.trace = <<pm_sample(built.ret)>>],
                       raised |-> NoExc, calls |-> << <<>> >>, nsample |-> 1]

\* fit(self, data); sampler is what pm.sample does if it is reached.  The body
\* never reads its parameter: line 90 calls create_model with no argument.
fit(slf, dataset, sampler) ==
    LET built == create_model(slf, <<>>)
    IN  IF built.raised # NoExc
        THEN [self |-> built.self, raised |-> built.raised,
              calls |-> << <<>> >>, nsample |-> 0]
        ELSE LET s90 == [built.self EXCEPT !.model = <<built.ret>>]
             IN  IF built.ret.type # "Model"
                 THEN [self |-> s90, raised |-> "AttributeError",
                       calls |-> << <<>> >>, nsample |-> 0]
                 ELSE IF sampler = "fails"
                 THEN [self |-> s90, raised |-> "SamplingFailure",
                       calls |-> << <<>> >>, nsample |-> 1]
                 ELSE [self |-> [s90 EXCEPT !.trace = <<pm_sample(built.ret)>>],
                       raised |-> NoExc, calls |-> << <<>> >>, nsample |-> 1]

(* ---------------------------- save / load ------------------------------ *)

\* def save(): declares no parameter.  Called on an instance, Python passes the
\* instance as first positional argument; called on the class, it passes none.
save(nargs) == IF nargs # 0 THEN "TypeError" ELSE "NotImplementedError"

load(nargs) == IF nargs # 0 THEN "TypeError" ELSE "NotImplementedError"

\* Positional arguments Python passes for a call without explicit arguments.
Bound(receiver) == IF receiver = "instance" THEN 1 ELSE 0

(* ------------------------------ actions -------------------------------- *)

Init ==
    /\ self = NewInstance
    /\ op = "new"
    /\ recv = "instance"
    /\ arg = <<>>
    /\ data = <<>>
    /\ raised = NoExc
    /\ ret = None
    /\ calls = <<>>
    /\ nsample = 0

\* conversion.fit(d)
CallFit(d, sampler) ==
    LET r == fit(self, d, sampler)
    IN  /\ self' = r.self
        /\ op' = "fit"
        /\ recv' = "instance"
        /\ arg' = d
        /\ data' = d
        /\ raised' = r.raised
        /\ ret' = None
        /\ calls' = r.calls
        /\ nsample' = r.nsample

\* conversion.create_model(d)
CallCreateModel(d) ==
    LET r == create_model(self, <<d>>)
    IN  /\ self' = r.self
        /\ op' = "create_model"
        /\ recv' = "instance"
        /\ arg' = d
        /\ data' = r.X[1]
        /\ raised' = r.raised
        /\ ret' = r.ret
        /\ calls' = << <<d>> >>
        /\ nsample' = 0

\* conversion.save() (receiver "instance") or Conversion.save() ("class")
CallSave(receiver) ==
    /\ op' = "save"
    /\ recv' = receiver
    /\ raised' = save(Bound(receiver))
    /\ ret' = None
    /\ calls' = <<>>
    /\ nsample' = 0
    /\ UNCHANGED <<self, arg, data>>

\* conversion.load() (receiver "instance") or Conversion.load() ("class")
CallLoad(receiver) ==
    /\ op' = "load"
    /\ recv' = receiver
    /\ raised' = load(Bound(receiver))
    /\ ret' = None
    /\ calls' = <<>>
    /\ nsample' = 0
    /\ UNCHANGED <<self, arg, data>>

Next ==
    \/ \E d \in Datasets, sampler \in SamplerOutcomes : CallFit(d, sampler)
    \/ \E d \in Datasets : CallCreateModel(d)
    \/ \E receiver \in {"instance", "class"} : CallSave(receiver)
    \/ \E receiver \in {"instance", "class"} : CallLoad(receiver)

Spec == Init /\ [][Next]_vars

(* ------------------------------ claims --------------------------------- *)

\* A dataset every pair of which has 0 <= successes <= trials.
Valid(X) == \A k \in 1..Len(X) : X[k][1] >= 0 /\ X[k][2] >= 0 /\ X[k][2] <= X[k][1]

\* The last call was fit or create_model.
FitOrBuild == op \in {"fit", "create_model"}

\* C1: fit(observations) hands that same dataset to create_model, invokes the
\* sampler exactly once, and on success the instance holds the graph built
\* from the dataset and the trace sampled from it.
C1_FitForwardsDataset ==
    op = "fit" =>
        /\ calls = << <<arg>> >>
        /\ nsample = 1
        /\ raised = NoExc =>
              /\ self.model = <<Model(arg, Len(arg))>>
              /\ self.trace = <<pm_sample(Model(arg, Len(arg)))>>

\* C2: on a dataset with a pair having successes > trials or a negative value,
\* create_model and fit raise InvalidObservationError and the sampler is not
\* invoked.
C2_InvalidObservationRejected ==
    (FitOrBuild /\ ~Valid(arg)) =>
        (raised = "InvalidObservationError" /\ nsample = 0)

\* C3: on the empty dataset, create_model and fit raise EmptyDatasetError and
\* the sampler is not invoked.
C3_EmptyDatasetRejected ==
    (FitOrBuild /\ arg = <<>>) =>
        (raised = "EmptyDatasetError" /\ nsample = 0)

\* C4: a fit on a valid dataset of N variants that the sampler does not fail
\* completes, and the stored trace then maps "phi", "lambda" and "theta" to
\* draws, with exactly N entries under "theta", all of the same length.
C4_TraceHasThetaPerVariant ==
    (op = "fit" /\ Valid(arg) /\ arg # <<>> /\ raised # "SamplingFailure") =>
        /\ raised = NoExc
        /\ self.trace # Absent
        /\ {"phi", "lambda", "theta"} \subseteq DOMAIN self.trace[1]
        /\ Len(self.trace[1]["theta"]) = Len(arg)
        /\ \A i, j \in 1..Len(arg) :
              Len(self.trace[1]["theta"][i]) = Len(self.trace[1]["theta"][j])

\* C5: on a valid non-empty dataset create_model returns a graph whose vector
\* of true rates has as many components as the dataset has variants, together
\* with a lookup from "theta" to that vector.
C5_BuildReturnsGraph ==
    (op = "create_model" /\ Valid(arg) /\ arg # <<>>) =>
        /\ raised = NoExc
        /\ ret.type = "Model"
        /\ ret.free[3].shape = <<Len(arg)>>
        /\ self.named_vars = <<[theta |-> ret.free[3]]>>

\* C6: after a fit that completes, the stored variant count, graph and trace
\* are those of the dataset of that fit, whatever an earlier call stored.
C6_LastFitOverwrites ==
    (op = "fit" /\ Valid(arg) /\ arg # <<>> /\ raised # "SamplingFailure") =>
        /\ self.nb_variants = <<Len(arg)>>
        /\ self.model # Absent
        /\ Len(self.model[1].observed) = Len(arg)
        /\ self.trace # Absent
        /\ Len(self.trace[1]["p"]) = Len(arg)

C8_SaveLoadNotImplemented ==
    [][(op' \in {"save", "load"} /\ recv' = "instance") =>
          /\ raised' = "NotImplementedError"
          /\ self'.model = self.model
          /\ self'.trace = self.trace]_vars

\* C9 as stated: create_model changes no field of the instance and leaves the
\* caller's dataset unchanged.
C9_BuildChangesNothing ==
    [][op' = "create_model" => (self' = self /\ data' = arg')]_vars

\* C9 amended: create_model leaves the stored trace and the caller's dataset
\* unchanged, and sets the instance's variant count to the length of the
\* dataset, its name lookup to "theta" -> the vector of true rates and its
\* graph to the graph built from the dataset.
C9_BuildFrame ==
    [][op' = "create_model" =>
          /\ self'.trace = self.trace
          /\ data' = arg'
          /\ self'.nb_variants = <<Len(arg')>>
          /\ self'.named_vars # Absent
          /\ DOMAIN self'.named_vars[1] = {"theta"}
          /\ self'.named_vars[1]["theta"].name = "p"
          /\ self'.named_vars[1]["theta"].shape = <<Len(arg')>>
          /\ self'.model # Absent
          /\ self'.model[1].type = "Model"
          /\ self'.model[1].free[3] = self'.named_vars[1]["theta"]]_vars

\* C9 witness: create_model has run on a non-empty dataset and the instance
\* holds the variant count and the graph it stored.
C9_Witness ==
    /\ op = "create_model"
    /\ arg # <<>>
    /\ self.nb_variants = <<Len(arg)>>
    /\ self.model # Absent

\* C10: for a dataset of N variants the graph create_model builds has exactly
\* N observed Binomial terms with pairwise distinct names; term i has trials =
\* first element of pair i, success probability = true_rates[i] and observed
\* successes = second element of pair i.
C10_OneBinomialPerVariant ==
    op = "create_model" =>
        /\ self.model # Absent
        /\ LET terms == self.model[1].observed
           IN  /\ Len(terms) = Len(arg)
               /\ \A k \in 1..Len(arg) :
                     /\ terms[k].dist = "Binomial"
                     /\ terms[k].n = arg[k][1]
                     /\ terms[k].p = [var |-> "p", index |-> k - 1]
                     /\ terms[k].observed = arg[k][2]
               /\ \A k, l \in 1..Len(arg) :
                     terms[k].name = terms[l].name => k = l

\* C10 witness: create_model has built the terms of two different variants.
C10_Witness ==
    /\ op = "create_model"
    /\ Len(arg) >= 2
    /\ arg[1] # arg[2]
    /\ self.model # Absent
    /\ Len(self.model[1].observed) = Len(arg)

====
